---- MODULE Spec2Model ----
(***************************************************************************)
(* Model of the language-server dispatcher of VSCucumberAutoComplete       *)
(* (gserver/src/server.ts): the case-handler scope scan, the field lookup, *)
(* the completion and diagnostic aggregation and the configuration /       *)
(* file-watch loop.                                                        *)
(*                                                                         *)
(* Text is modelled at the level of atoms: a line is a sequence of atoms,  *)
(* an atom is either the single blank " " or a maximal run of non-blank    *)
(* characters (a word).  A text is a sequence of lines; line numbers and   *)
(* cursor columns are 0-based as in the source, a column counts atoms.     *)
(***************************************************************************)
EXTENDS Integers, Sequences, FiniteSets, TLC

VARIABLES
    settings,      \* module variable `settings`: "undefined" or [steps, pages]
    stepsHandler,  \* module variable `stepsHandler`: "undefined" or [index]
    pagesHandler,  \* module variable `pagesHandler`: "undefined" or [index]
    watchers,      \* listeners registered with fs.watchFile
    documents,     \* TextDocuments: the open documents, in the order opened
    disk,          \* step and page definitions currently on disk
    taskGuides,    \* the task-guide directory tree of the workspace
    last,          \* what the handler that ran last did and returned
    fcText,        \* findCaseHandlers: argument featureText (as lines)
    fcLine,        \* findCaseHandlers: argument currentLine
    fcPc,          \* findCaseHandlers: "call" before, "done" after the call
    fcResult,      \* findCaseHandlers: the returned completion items
    fcLines,       \* the document line each returned item was built from
    rqLine,        \* a request's position.line
    rqChar,        \* a request's position.character
    rqPc           \* "call" before a request is handled, "done" after

sessionVars == <<settings, stepsHandler, pagesHandler, watchers, documents,
                 disk, taskGuides, last>>
scopeVars == <<fcText, fcLine, fcPc, fcResult, fcLines>>
requestVars == <<rqLine, rqChar, rqPc>>
vars == <<settings, stepsHandler, pagesHandler, watchers, documents,
          disk, taskGuides, last, fcText, fcLine, fcPc, fcResult, fcLines,
          rqLine, rqChar, rqPc>>

----------------------------------------------------------------------------
(* Bounds *)

\* longest document handed to findCaseHandlers in SpecScope
MaxLines == 5

\* number of documents the editor can have open
MaxDocs == 2

----------------------------------------------------------------------------
(* Lines *)

LScenario == <<"Scenario:", " ", "s1">>
LBackground == <<"Background:">>
LDeclTaskguide == <<"Given", " ", "case", " ", "Login", " ", "with", " ",
                    "taskguide", " ", "LoginGuide">>
LDeclIs == <<" ", "Given", " ", "case", " ", "Order", " ", "is", " ", "OrderGuide">>
LDeclPlain == <<"Given", " ", "case", " ", "Plain">>
LDeclBare == <<"Given", " ", "case", " ">>
LStep == <<"When", " ", "login">>
LTypeField == <<"Then", " ", "Login.">>
LPageCase == <<"When", " ", "\"pg", " ", "case", " ">>
LStepPage == <<"When", " ", "logout", " ", "\"home\".\"btn\"">>
LComment == <<"#", " ", "\"cart\".\"btn\"">>
LPageOnly == <<"\"cart\".\"btn\"", " ", "\"home\".\"btn\"">>
LTypePlain == <<"Then", " ", "Plain.">>
LFieldKw == <<"When", " ", "field">>

\* the documents the editor opens
TextField == <<LBackground, LDeclTaskguide, LScenario, LTypeField>>
TextCase == <<LScenario, LDeclTaskguide, LPageCase, LStepPage>>
TextPlain == <<LComment, LPageOnly, LDeclPlain>>
TextKeyword == <<LScenario, LDeclPlain, LTypePlain, LFieldKw>>
SessionTexts == {TextCase, TextPlain}
RequestTexts == {TextField, TextCase, TextPlain, TextKeyword}

----------------------------------------------------------------------------
(* String helpers of the JavaScript runtime, on atom sequences *)

Range(s) == {s[n] : n \in 1..Len(s)}

RECURSIVE trimStart(_)
trimStart(line) ==
    IF line # <<>> /\ Head(line) = " " THEN trimStart(Tail(line)) ELSE line

RECURSIVE trimEnd(_)
trimEnd(line) ==
    IF line # <<>> /\ line[Len(line)] = " "
    THEN trimEnd(SubSeq(line, 1, Len(line) - 1))
    ELSE line

\* String.prototype.trim
trim(line) == trimEnd(trimStart(line))

\* words that start with the characters "case"
CasePrefixed == {"case", "cases"}

\* line.startsWith('Scenario:')
startsWithScenario(line) == line # <<>> /\ line[1] = "Scenario:"

\* line.startsWith('Background:')
startsWithBackground(line) == line # <<>> /\ line[1] = "Background:"

\* line.startsWith('Given case')
startsWithGivenCase(line) ==
    /\ Len(line) >= 3
    /\ line[1] = "Given"
    /\ line[2] = " "
    /\ line[3] \in CasePrefixed

\* the value of a capture group that took no part in the match
Undefined == "undefined"

NoMatch == [matched |-> FALSE, g1 |-> Undefined, g2 |-> Undefined, g3 |-> Undefined]

\* trimmedLine.match(/^Given case (\S+)(?: with taskguide (\S+)| is (\S+))?/)
matchCaseHandler(t) ==
    IF /\ Len(t) >= 5
       /\ t[1] = "Given" /\ t[2] = " " /\ t[3] = "case" /\ t[4] = " "
       /\ t[5] # " "
    THEN IF /\ Len(t) >= 11
            /\ t[6] = " " /\ t[7] = "with" /\ t[8] = " "
            /\ t[9] = "taskguide" /\ t[10] = " " /\ t[11] # " "
         THEN [matched |-> TRUE, g1 |-> t[5], g2 |-> t[11], g3 |-> Undefined]
         ELSE IF /\ Len(t) >= 9
                 /\ t[6] = " " /\ t[7] = "is" /\ t[8] = " " /\ t[9] # " "
              THEN [matched |-> TRUE, g1 |-> t[5], g2 |-> Undefined, g3 |-> t[9]]
              ELSE [matched |-> TRUE, g1 |-> t[5], g2 |-> Undefined, g3 |-> Undefined]
    ELSE NoMatch

----------------------------------------------------------------------------
(* findCaseHandlers *)

\* lines[i] of the source, i 0-based
LineAt(lines, i) == lines[i + 1]

\* the backward loop `for (let i = currentLine; i >= 0; i--)`
RECURSIVE scanBack(_, _, _)
scanBack(lines, i, background) ==
    IF i < 0
    THEN [scenarioStartLine |-> -1, backgroundStartLine |-> background]
    ELSE IF startsWithScenario(trim(LineAt(lines, i)))
         THEN [scenarioStartLine |-> i, backgroundStartLine |-> background]
         ELSE IF startsWithBackground(trim(LineAt(lines, i)))
              THEN scanBack(lines, i - 1, i)
              ELSE scanBack(lines, i - 1, background)

\* the forward loop that finds firstScenarioLine
RECURSIVE scanFirstScenario(_, _)
scanFirstScenario(lines, i) ==
    IF i >= Len(lines)
    THEN -1
    ELSE IF startsWithScenario(trim(LineAt(lines, i)))
         THEN i
         ELSE scanFirstScenario(lines, i + 1)

\* the adjustment of backgroundStartLine to the first scenario
adjustBackground(backgroundStartLine, firstScenarioLine) ==
    IF /\ backgroundStartLine # -1
       /\ firstScenarioLine # -1
       /\ backgroundStartLine < firstScenarioLine
    THEN firstScenarioLine - 1
    ELSE backgroundStartLine

\* the interval test without the lower end of the scenario span
inScopeFromTop(lineNumber, currentLine, scenarioStartLine, backgroundStartLine, firstScenarioLine) ==
    \/ lineNumber <= currentLine
    \/ backgroundStartLine <= lineNumber /\ lineNumber <= firstScenarioLine

\* the interval test of the collecting loop
inScope(lineNumber, currentLine, scenarioStartLine, backgroundStartLine, firstScenarioLine) ==
    \/ scenarioStartLine <= lineNumber /\ lineNumber <= currentLine
    \/ backgroundStartLine <= lineNumber /\ lineNumber <= firstScenarioLine

\* the completion item built for a matched declaration
caseHandlerItem(m) ==
    [label |-> m.g1,
     detail |-> <<"Taskguide:", " ", IF m.g2 # Undefined THEN m.g2 ELSE m.g3>>,
     documentation |-> <<>>,
     sortText |-> "A_",
     data |-> "",
     insertText |-> <<>>]

\* the line numbers of the declarations the collecting loop pushes, in order
RECURSIVE collectLines(_, _, _, _, _, _)
collectLines(lines, lineNumber, currentLine, scenarioStartLine, backgroundStartLine, firstScenarioLine) ==
    IF lineNumber >= Len(lines)
    THEN <<>>
    ELSE LET trimmedLine == trim(LineAt(lines, lineNumber))
             rest == collectLines(lines, lineNumber + 1, currentLine,
                                  scenarioStartLine, backgroundStartLine,
                                  firstScenarioLine)
         IN IF /\ startsWithGivenCase(trimmedLine)
               /\ inScope(lineNumber, currentLine, scenarioStartLine,
                          backgroundStartLine, firstScenarioLine)
               /\ matchCaseHandler(trimmedLine).matched
            THEN <<lineNumber>> \o rest
            ELSE rest

caseHandlerLines(lines, currentLine) ==
    LET back == scanBack(lines, currentLine, -1)
        firstScenarioLine == scanFirstScenario(lines, 0)
        backgroundStartLine ==
            adjustBackground(back.backgroundStartLine, firstScenarioLine)
    IN collectLines(lines, 0, currentLine, back.scenarioStartLine,
                    backgroundStartLine, firstScenarioLine)

findCaseHandlers(lines, currentLine) ==
    LET found == caseHandlerLines(lines, currentLine)
    IN [n \in 1..Len(found) |->
            caseHandlerItem(matchCaseHandler(trim(LineAt(lines, found[n]))))]

----------------------------------------------------------------------------
(* Session state *)

Uris == 1..MaxDocs

\* documents.get(uri) of a document that is not open
Closed == <<>>

\* the steps option of a configuration: absent, one string, or a list
StepsAbsent == [kind |-> "absent", str |-> Undefined, list |-> <<>>]
StepsString(p) == [kind |-> "string", str |-> p, list |-> <<>>]
StepsList(l) == [kind |-> "list", str |-> Undefined, list |-> l]

\* the pages option: absent, or a mapping given as its [key, pattern] entries
PagesAbsent == [kind |-> "absent", map |-> <<>>]
PagesMap(m) == [kind |-> "map", map |-> m]

\* `let settings: Settings;` before the first configuration change
NoSettings == [defined |-> FALSE, steps |-> <<>>, pages |-> PagesAbsent]

\* `let stepsHandler` / `let pagesHandler` before they are constructed
NoHandler == [defined |-> FALSE, index |-> <<>>]

StepsOptions ==
    {StepsAbsent, StepsString("s1"), StepsList(<<>>), StepsList(<<"s1", "s2">>)}

PagesOptions ==
    {PagesAbsent, PagesMap(<<>>), PagesMap(<<[key |-> "home", pattern |-> "pg1"]>>)}

\* the options the configuration changes of a session carry
SessionStepsOptions == {StepsAbsent, StepsString("s1"), StepsList(<<>>)}

SessionPagesOptions ==
    {PagesAbsent, PagesMap(<<[key |-> "home", pattern |-> "pg1"]>>)}

\* glob.sync(workspaceRoot + '/' + path): the files a pattern expands to
Glob(pattern) ==
    CASE pattern = "s1" -> <<"a.steps">>
      [] pattern = "s2" -> <<"b.steps">>
      [] pattern = "pg1" -> <<"home.page">>
      [] OTHER -> <<>>

Files == {"a.steps", "b.steps", "home.page"}

\* the files that are edited while the session runs
EditableFiles == {"a.steps", "home.page"}

\* the definitions a source file can hold; an external edit switches them
FileContents(f) ==
    CASE f = "a.steps" -> <<<<>>, <<"login">>>>
      [] f = "b.steps" -> <<<<"logout">>, <<>>>>
      [] f = "home.page" -> <<<<>>, <<"home">>>>

DiskInit == [f \in Files |-> FileContents(f)[1]]

RECURSIVE Flatten(_)
Flatten(ss) == IF ss = <<>> THEN <<>> ELSE Head(ss) \o Flatten(Tail(ss))

\* the files of a list of patterns, in pattern order
GlobAll(patterns) == Flatten([n \in 1..Len(patterns) |-> Glob(patterns[n])])

\* the patterns of the pages mapping: Object.keys(pages).map(key => pages[key])
PagePatterns(pages) == [n \in 1..Len(pages.map) |-> pages.map[n].pattern]

----------------------------------------------------------------------------
(* The external indexes StepsHandler and PagesHandler *)

\* StepsHandler.populate: the definitions of the files the patterns expand to
buildStepsIndex(steps, d) ==
    LET files == GlobAll(steps)
    IN Flatten([n \in 1..Len(files) |-> d[files[n]]])

\* PagesHandler.populate
buildPagesIndex(pages, d) ==
    LET files == GlobAll(PagePatterns(pages))
    IN Flatten([n \in 1..Len(files) |-> d[files[n]]])

GherkinKeywords == {"Given", "When", "Then"}

\* the step a line invokes: the word after the Gherkin keyword
StepOf(line) ==
    LET t == trim(line)
    IN IF Len(t) >= 3 /\ t[1] \in GherkinKeywords /\ t[2] = " "
       THEN <<t[3]>>
       ELSE <<>>

\* StepsHandler.validate(line, i, text): one diagnostic or none (null)
stepsValidate(index, line, i) ==
    IF StepOf(line) # <<>> /\ StepOf(line)[1] \notin Range(index)
    THEN <<[source |-> "step", line |-> i, name |-> StepOf(line)[1]]>>
    ELSE <<>>

\* the page a page-object reference atom names
PageOfAtom(a) ==
    CASE a = "\"home\".\"btn\"" -> <<"home">>
      [] a = "\"cart\".\"btn\"" -> <<"cart">>
      [] OTHER -> <<>>

\* PagesHandler.validate(line, i): one diagnostic per unknown page reference
RECURSIVE pagesValidate(_, _, _)
pagesValidate(index, line, i) ==
    IF line = <<>>
    THEN <<>>
    ELSE LET page == PageOfAtom(Head(line))
         IN (IF page # <<>> /\ page[1] \notin Range(index)
             THEN <<[source |-> "page", line |-> i, name |-> page[1]]>>
             ELSE <<>>) \o pagesValidate(index, Tail(line), i)

\* StepsHandler.validateConfiguration: one diagnostic per pattern without files
validateConfiguration(steps) ==
    Flatten([n \in 1..Len(steps) |->
                IF Glob(steps[n]) = <<>>
                THEN <<[source |-> "config", line |-> 0, name |-> steps[n]]>>
                ELSE <<>>])

\* clearGherkinComments: a comment line is emptied, the line count is kept
clearGherkinComments(text) ==
    [n \in 1..Len(text) |->
        IF trimStart(text[n]) # <<>> /\ trimStart(text[n])[1] = "#"
        THEN <<>>
        ELSE text[n]]

----------------------------------------------------------------------------
(* server.ts: settings predicates, populate, watch, validate *)

handleSteps(s) == Len(s.steps) > 0

handlePages(s) == s.pages.kind = "map" /\ Len(s.pages.map) > 0

\* the normalisation that forgets to wrap a lone string
normalizeStepsUnwrapped(option) ==
    IF option.kind = "list" THEN option.list ELSE <<>>

\* Array.isArray(steps) ? steps : [steps]
normalizeSteps(option) ==
    IF option.kind = "list" THEN option.list ELSE <<option.str>>

\* populateHandlers that rebuilds the step index only
populateHandlersStepsOnly(s, sh, ph, d) ==
    LET doSteps == handleSteps(s) /\ sh.defined
    IN [stepsHandler |-> IF doSteps
                         THEN [defined |-> TRUE, index |-> buildStepsIndex(s.steps, d)]
                         ELSE sh,
        pagesHandler |-> ph,
        rebuilt |-> IF doSteps THEN {"steps"} ELSE {}]

\* populateHandlers, called with defined settings
populateHandlers(s, sh, ph, d) ==
    LET doSteps == handleSteps(s) /\ sh.defined
        doPages == handlePages(s) /\ ph.defined
    IN [stepsHandler |-> IF doSteps
                         THEN [defined |-> TRUE, index |-> buildStepsIndex(s.steps, d)]
                         ELSE sh,
        pagesHandler |-> IF doPages
                         THEN [defined |-> TRUE, index |-> buildPagesIndex(s.pages, d)]
                         ELSE ph,
        rebuilt |-> (IF doSteps THEN {"steps"} ELSE {})
                    \cup (IF doPages THEN {"pages"} ELSE {})]

\* the listeners watchFiles registers: one per file of each pattern
watchFiles(patterns, owner) ==
    {[file |-> f, owner |-> owner] : f \in Range(GlobAll(patterns))}

\* validate that appends the page diagnostics of every line
RECURSIVE validateBothFrom(_, _, _, _, _)
validateBothFrom(lines, i, s, sh, ph) ==
    IF i >= Len(lines)
    THEN <<>>
    ELSE LET line == LineAt(lines, i)
             diagnostic == IF handleSteps(s) /\ sh.defined
                           THEN stepsValidate(sh.index, line, i)
                           ELSE <<>>
             pagesDiagnosticArr == IF handlePages(s) /\ ph.defined
                                   THEN pagesValidate(ph.index, line, i)
                                   ELSE <<>>
         IN diagnostic \o pagesDiagnosticArr
            \o validateBothFrom(lines, i + 1, s, sh, ph)

validateBoth(lines, s, sh, ph) == validateBothFrom(lines, 0, s, sh, ph)

\* the reduce of validate from line i on
RECURSIVE validateFrom(_, _, _, _, _)
validateFrom(lines, i, s, sh, ph) ==
    IF i >= Len(lines)
    THEN <<>>
    ELSE LET line == LineAt(lines, i)
             diagnostic == IF handleSteps(s) /\ sh.defined
                           THEN stepsValidate(sh.index, line, i)
                           ELSE <<>>
         IN (IF diagnostic # <<>>
             THEN diagnostic
             ELSE IF handlePages(s) /\ ph.defined
                  THEN pagesValidate(ph.index, line, i)
                  ELSE <<>>)
            \o validateFrom(lines, i + 1, s, sh, ph)

\* validate(text), called with defined settings
validate(lines, s, sh, ph) == validateFrom(lines, 0, s, sh, ph)

\* documents.get(uri): the text of the open document, Closed if none is open
documentsGet(u) ==
    IF \E n \in 1..Len(documents) : documents[n].uri = u
    THEN documents[CHOOSE n \in 1..Len(documents) : documents[n].uri = u].text
    ELSE Closed

\* documents.all(): the open documents in the order they were opened
openUris == [k \in 1..Len(documents) |-> documents[k].uri]

\* one diagnostics message per open document
broadcast(s, sh, ph) ==
    LET open == openUris
    IN [n \in 1..Len(open) |->
            [uri |-> open[n],
             diagnostics |-> validate(clearGherkinComments(documentsGet(open[n])),
                                      s, sh, ph)]]

\* the listener that validates before it repopulates
watchListenerStale(s, sh, ph, d) ==
    LET p == populateHandlers(s, sh, ph, d)
    IN [stepsHandler |-> p.stepsHandler,
        pagesHandler |-> p.pagesHandler,
        rebuilt |-> p.rebuilt,
        sent |-> broadcast(s, sh, ph)]

\* the listener watchFiles hands to fs.watchFile
watchListener(s, sh, ph, d) ==
    LET p == populateHandlers(s, sh, ph, d)
    IN [stepsHandler |-> p.stepsHandler,
        pagesHandler |-> p.pagesHandler,
        rebuilt |-> p.rebuilt,
        sent |-> broadcast(s, p.stepsHandler, p.pagesHandler)]


----------------------------------------------------------------------------
(* The task-guide tree and the field lookup *)

\* the characters of a name
Chars(a) ==
    CASE a = "LoginGuide" -> <<"L", "o", "g", "i", "n", "G", "u", "i", "d", "e">>
      [] a = "loginguide" -> <<"l", "o", "g", "i", "n", "g", "u", "i", "d", "e">>
      [] a = "LOGINGUIDE" -> <<"L", "O", "G", "I", "N", "G", "U", "I", "D", "E">>
      [] a = "LoginGuideExtra" -> <<"L", "o", "g", "i", "n", "G", "u", "i", "d", "e",
                                    "E", "x", "t", "r", "a">>
      [] a = "OrderGuide" -> <<"O", "r", "d", "e", "r", "G", "u", "i", "d", "e">>
      [] a = "Other" -> <<"O", "t", "h", "e", "r">>
      [] a = "undefined" -> <<"u", "n", "d", "e", "f", "i", "n", "e", "d">>
      [] OTHER -> <<a>>

lowerChar(c) ==
    CASE c = "D" -> "d" [] c = "E" -> "e" [] c = "G" -> "g" [] c = "I" -> "i"
      [] c = "L" -> "l" [] c = "N" -> "n" [] c = "O" -> "o" [] c = "U" -> "u"
      [] OTHER -> c

\* String.prototype.toLowerCase
toLowerCase(cs) == [n \in 1..Len(cs) |-> lowerChar(cs[n])]

\* String.prototype.startsWith
startsWith(cs, prefix) ==
    Len(prefix) <= Len(cs) /\ SubSeq(cs, 1, Len(prefix)) = prefix

Absent == "absent"

\* the lines of a description file: the attributes each line carries
FieldsXml ==
    <<[name |-> "Username", type |-> "text", title |-> "User Name"],
      [name |-> Absent, type |-> "text", title |-> "Heading"],
      [name |-> "Password", type |-> Absent, title |-> Absent]>>

ExtraXml == <<[name |-> "Token", type |-> Absent, title |-> "Token"]>>

FileEntry(stem, suffix, readable, content) ==
    [stem |-> Chars(stem), suffix |-> suffix, readable |-> readable,
     content |-> content]

DirEntry(name, isDir, files) ==
    [name |-> Chars(name), isDir |-> isDir, files |-> files]

RootMissing == [exists |-> FALSE, entries |-> <<>>]
Root(entries) == [exists |-> TRUE, entries |-> entries]

NoLayout == [primary |-> RootMissing, fallback |-> RootMissing]

LayoutPrimary ==
    [primary |-> Root(<<DirEntry("Other", TRUE, <<>>),
                        DirEntry("LoginGuide", TRUE,
                            <<FileEntry("LoginGuide", ".fields.xml", TRUE, FieldsXml),
                              FileEntry("LoginGuide", ".xml", TRUE, ExtraXml)>>)>>),
     fallback |-> RootMissing]

LayoutFallbackLower ==
    [primary |-> RootMissing,
     fallback |-> Root(<<DirEntry("loginguide", TRUE,
                            <<FileEntry("LoginGuide", ".fields.xml", TRUE, FieldsXml)>>)>>)]

LayoutUnreadable ==
    [primary |-> Root(<<DirEntry("LoginGuide", TRUE,
                            <<FileEntry("LoginGuide", ".fields.xml", FALSE, FieldsXml),
                              FileEntry("LoginGuideExtra", ".fields.xml", TRUE, ExtraXml)>>)>>),
     fallback |-> RootMissing]

LayoutNoMatch ==
    [primary |-> Root(<<DirEntry("Other", TRUE, <<>>)>>), fallback |-> RootMissing]

LayoutPlainFile ==
    [primary |-> Root(<<DirEntry("LoginGuide", FALSE, <<>>)>>), fallback |-> RootMissing]

LayoutLowerFile ==
    [primary |-> Root(<<DirEntry("LOGINGUIDE", TRUE,
                            <<FileEntry("loginguide", ".fields.xml", TRUE, FieldsXml)>>)>>),
     fallback |-> RootMissing]

LayoutUndefined ==
    [primary |-> Root(<<DirEntry("undefined", TRUE,
                            <<FileEntry("undefined", ".fields.xml", TRUE, ExtraXml)>>)>>),
     fallback |-> RootMissing]

Layouts == {NoLayout, LayoutPrimary, LayoutFallbackLower, LayoutUnreadable,
            LayoutNoMatch, LayoutPlainFile, LayoutLowerFile, LayoutUndefined}

\* a completion item; fields a source leaves unset are empty
Item(label, detail, documentation, sortText, data) ==
    [label |-> label, detail |-> detail, documentation |-> documentation,
     sortText |-> sortText, data |-> data, insertText |-> <<>>]

\* parseXmlForCompletionItems
RECURSIVE parseXmlForCompletionItems(_)
parseXmlForCompletionItems(xmlLines) ==
    IF xmlLines = <<>>
    THEN <<>>
    ELSE LET line == Head(xmlLines)
             typeText == IF line.type # Absent THEN <<line.type>> ELSE <<>>
             detailText ==
                 (IF line.type # Absent THEN <<"Type:", line.type, "\n">> ELSE <<>>)
                 \o (IF line.title # Absent THEN <<"Title:", line.title>> ELSE <<>>)
         IN (IF line.name # Absent
             THEN <<Item(line.name, typeText, detailText, "AA_", "")>>
             ELSE <<>>) \o parseXmlForCompletionItems(Tail(xmlLines))

\* the inner forEach over the files of the matched directory
RECURSIVE fieldsOfFiles(_, _)
fieldsOfFiles(files, fileName) ==
    IF files = <<>>
    THEN <<>>
    ELSE LET file == Head(files)
         IN (IF /\ startsWith(file.stem, Chars(fileName))
                /\ file.suffix = ".fields.xml"
                /\ file.readable
             THEN parseXmlForCompletionItems(file.content)
             ELSE <<>>) \o fieldsOfFiles(Tail(files), fileName)

\* the outer forEach over the entries of the task-guide root
RECURSIVE fieldsOfDirs(_, _)
fieldsOfDirs(entries, fileName) ==
    IF entries = <<>>
    THEN [error |-> "none", items |-> <<>>]
    ELSE LET dir == Head(entries)
             rest == fieldsOfDirs(Tail(entries), fileName)
         IN IF toLowerCase(dir.name) = toLowerCase(Chars(fileName))
            THEN IF ~dir.isDir
                 THEN [error |-> "ENOTDIR", items |-> <<>>]
                 ELSE [error |-> rest.error,
                       items |-> fieldsOfFiles(dir.files, fileName) \o rest.items]
            ELSE rest

\* "<label>." for the labels a document can declare
withDot(label) ==
    CASE label = "Login" -> "Login."
      [] label = "Order" -> "Order."
      [] label = "Plain" -> "Plain."
      [] OTHER -> "?"

\* the items of s that satisfy the filter of extractFieldsForCaseHandlerIfPossible
RECURSIVE handlersBeforeCursor(_, _)
handlersBeforeCursor(caseHandlers, wordBeforeCursor) ==
    IF caseHandlers = <<>>
    THEN <<>>
    ELSE (IF withDot(Head(caseHandlers).label) = wordBeforeCursor
          THEN <<Head(caseHandlers)>>
          ELSE <<>>) \o handlersBeforeCursor(Tail(caseHandlers), wordBeforeCursor)

\* extractFieldsForCaseHandlerIfPossible: the field items it appends, or the
\* error a directory listing throws
extractFieldsForCaseHandlerIfPossible(caseHandlers, wordBeforeCursor, tg) ==
    LET caseHandlerBeforeCursor == handlersBeforeCursor(caseHandlers, wordBeforeCursor)
    IN IF caseHandlerBeforeCursor # <<>>
       THEN LET fileName == caseHandlerBeforeCursor[1].detail[3]
                taskGuidesPath == IF tg.primary.exists THEN tg.primary ELSE tg.fallback
                found == fieldsOfDirs(taskGuidesPath.entries, fileName)
            IN IF ~taskGuidesPath.exists
               THEN [lookup |-> TRUE, error |-> "ENOENT", items |-> <<>>]
               ELSE [lookup |-> TRUE, error |-> found.error,
                     items |-> IF found.error = "none" THEN found.items ELSE <<>>]
       ELSE [lookup |-> FALSE, error |-> "none", items |-> <<>>]

----------------------------------------------------------------------------
(* Completion and definition *)

\* getWordBeforeCursor
getWordBeforeCursor(line, char) ==
    LET beforeCursor == trim(SubSeq(line, 1, char))
    IN IF beforeCursor = <<>> THEN "" ELSE beforeCursor[Len(beforeCursor)]

\* addCaseHandlersToCompletionItems: the case handlers with their insertText
addCaseHandlersToCompletionItems(line, caseHandlers) ==
    LET lastCharIsSpace == line # <<>> /\ line[Len(line)] = " "
    IN [n \in 1..Len(caseHandlers) |->
            [caseHandlers[n] EXCEPT
                !.insertText = IF lastCharIsSpace
                               THEN <<caseHandlers[n].label>>
                               ELSE <<"case", " ", caseHandlers[n].label>>]]

\* the double quotes an atom holds
quoteCount(a) ==
    CASE a = "\"pg" -> 1
      [] a = "\"home\".\"btn\"" -> 4
      [] a = "\"cart\".\"btn\"" -> 4
      [] OTHER -> 0

RECURSIVE quotesIn(_)
quotesIn(line) ==
    IF line = <<>> THEN 0 ELSE quoteCount(Head(line)) + quotesIn(Tail(line))

\* PagesHandler.getFeaturePosition: the cursor is inside an open quotation
getFeaturePosition(line, char) == quotesIn(SubSeq(line, 1, char)) % 2 = 1

\* pagesPosition, called with defined settings
pagesPosition(line, char, s, ph) ==
    handlePages(s) /\ ph.defined /\ getFeaturePosition(line, char)

\* PagesHandler.getCompletion: one item per indexed page
pagesGetCompletion(index) ==
    [n \in 1..Len(index) |-> Item(index[n], <<>>, <<>>, "", "page")]

\* StepsHandler.getCompletion: one item per indexed step, on a step line
stepsGetCompletion(index, line) ==
    IF trim(line) # <<>> /\ trim(line)[1] \in GherkinKeywords
    THEN [n \in 1..Len(index) |-> Item(index[n], <<>>, <<>>, "", "step")]
    ELSE <<>>

\* the concatenation with the step items ahead of the page items
concatSourcesStepsFirst(caseItems, fieldItems, pageItems, stepItems) ==
    caseItems \o fieldItems \o stepItems \o pageItems

\* the order in which onCompletion concatenates its sources
concatSources(caseItems, fieldItems, pageItems, stepItems) ==
    caseItems \o fieldItems \o pageItems \o stepItems

\* connection.onCompletion
onCompletion(text, lineNo, char, s, sh, ph, tg) ==
    LET line == LineAt(text, lineNo)
        wordBeforeCursor == getWordBeforeCursor(line, char)
        caseHandlers == findCaseHandlers(text, lineNo)
        caseItems == IF wordBeforeCursor \in {"case", "field"}
                     THEN addCaseHandlersToCompletionItems(line, caseHandlers)
                     ELSE <<>>
        fields == extractFieldsForCaseHandlerIfPossible(caseHandlers,
                                                        wordBeforeCursor, tg)
        pageItems == IF pagesPosition(line, char, s, ph) /\ ph.defined
                     THEN pagesGetCompletion(ph.index)
                     ELSE <<>>
        stepItems == IF handleSteps(s) /\ sh.defined
                     THEN stepsGetCompletion(sh.index, line)
                     ELSE <<>>
    IN IF fields.error # "none"
       THEN [error |-> fields.error, lookup |-> fields.lookup,
             word |-> wordBeforeCursor, items |-> <<>>]
       ELSE IF ~s.defined
            THEN [error |-> "TypeError", lookup |-> fields.lookup,
                  word |-> wordBeforeCursor, items |-> <<>>]
            ELSE [error |-> "none", lookup |-> fields.lookup,
                  word |-> wordBeforeCursor,
                  items |-> concatSources(caseItems, fields.items,
                                          pageItems, stepItems)]

\* connection.onDefinition: which provider answers
onDefinition(text, lineNo, char, s, sh, ph) ==
    LET line == LineAt(text, lineNo)
    IN IF ~s.defined
       THEN [error |-> "TypeError", provider |-> "none"]
       ELSE IF pagesPosition(line, char, s, ph) /\ ph.defined
            THEN [error |-> "none", provider |-> "pages"]
            ELSE IF handleSteps(s) /\ sh.defined
                 THEN [error |-> "none", provider |-> "steps"]
                 ELSE [error |-> "none", provider |-> "default"]


----------------------------------------------------------------------------
(* The session: handlers of the connection and of the document manager *)

\* uri of the settings file the configuration diagnostics are sent for
SettingsUri == 0

\* what the last handler did; every handler starts from this record
NoLast ==
    [kind |-> "init", error |-> "none", uri |-> 0, line |-> 0, char |-> 0,
     word |-> "", lookup |-> FALSE, result |-> <<>>, provider |-> "none",
     sent |-> <<>>, rebuilt |-> {}, option |-> StepsAbsent, globbed |-> <<>>,
     built |-> <<>>, watch |-> [file |-> "", owner |-> ""]]

\* the glob.sync calls of one watchFiles call
globCalls(patterns, owner) ==
    [n \in 1..Len(patterns) |-> [owner |-> owner, pattern |-> patterns[n]]]

ScopeIdle ==
    /\ fcText = <<>>
    /\ fcLine = 0
    /\ fcPc = "idle"
    /\ fcResult = <<>>
    /\ fcLines = <<>>

RequestIdle ==
    /\ rqLine = 0
    /\ rqChar = 0
    /\ rqPc = "idle"

Init ==
    /\ settings = NoSettings
    /\ stepsHandler = NoHandler
    /\ pagesHandler = NoHandler
    /\ watchers = {}
    /\ documents = <<>>
    /\ disk = DiskInit
    /\ taskGuides = NoLayout
    /\ last = NoLast
    /\ fcText = <<>>
    /\ fcLine = 0
    /\ ScopeIdle
    /\ RequestIdle

\* connection.onDidChangeConfiguration: the new module state, the glob.sync
\* calls and handler constructions it makes, and the message it sends
onDidChangeConfiguration(sh, ph, w, d, stepsOption, pagesOption) ==
    LET s == [defined |-> TRUE, steps |-> normalizeSteps(stepsOption),
              pages |-> pagesOption]
        doSteps == handleSteps(s)
        doPages == handlePages(s)
    IN [settings |-> s,
        watchers |-> w
            \cup (IF doSteps THEN watchFiles(s.steps, "steps") ELSE {})
            \cup (IF doPages THEN watchFiles(PagePatterns(s.pages), "pages") ELSE {}),
        stepsHandler |-> IF doSteps
                         THEN [defined |-> TRUE, index |-> buildStepsIndex(s.steps, d)]
                         ELSE sh,
        pagesHandler |-> IF doPages
                         THEN [defined |-> TRUE, index |-> buildPagesIndex(s.pages, d)]
                         ELSE ph,
        globbed |-> (IF doSteps THEN globCalls(s.steps, "steps") ELSE <<>>)
                    \o (IF doPages
                        THEN globCalls(PagePatterns(s.pages), "pages")
                        ELSE <<>>),
        built |-> (IF doSteps THEN <<"steps">> ELSE <<>>)
                  \o (IF doPages THEN <<"pages">> ELSE <<>>),
        sent |-> IF doSteps
                 THEN <<[uri |-> SettingsUri,
                         diagnostics |-> validateConfiguration(s.steps)]>>
                 ELSE <<>>]

ChangeConfiguration(stepsOption, pagesOption) ==
    LET r == onDidChangeConfiguration(stepsHandler, pagesHandler, watchers, disk,
                                      stepsOption, pagesOption)
    IN /\ settings' = r.settings
       /\ watchers' = r.watchers
       /\ stepsHandler' = r.stepsHandler
       /\ pagesHandler' = r.pagesHandler
       /\ last' = [NoLast EXCEPT !.kind = "config", !.option = stepsOption,
                                 !.globbed = r.globbed, !.built = r.built,
                                 !.sent = r.sent]
       /\ UNCHANGED <<documents, disk, taskGuides>>
       /\ UNCHANGED scopeVars
       /\ UNCHANGED requestVars

\* documents.onDidOpen
DidOpen(u, text) ==
    /\ documentsGet(u) = Closed
    /\ documents' = Append(documents, [uri |-> u, text |-> text])
    /\ IF ~settings.defined
       THEN /\ last' = [NoLast EXCEPT !.kind = "open", !.uri = u,
                                      !.error = "TypeError"]
            /\ UNCHANGED <<stepsHandler, pagesHandler>>
       ELSE LET p == populateHandlers(settings, stepsHandler, pagesHandler, disk)
            IN /\ stepsHandler' = p.stepsHandler
               /\ pagesHandler' = p.pagesHandler
               /\ last' = [NoLast EXCEPT !.kind = "open", !.uri = u,
                                         !.rebuilt = p.rebuilt]
    /\ UNCHANGED <<settings, watchers, disk, taskGuides>>
    /\ UNCHANGED scopeVars
    /\ UNCHANGED requestVars

\* documents.onDidChangeContent
DidChangeContent(u, text) ==
    /\ documentsGet(u) # Closed
    /\ documents' = [n \in 1..Len(documents) |->
                         IF documents[n].uri = u
                         THEN [uri |-> u, text |-> text]
                         ELSE documents[n]]
    /\ IF ~settings.defined
       THEN last' = [NoLast EXCEPT !.kind = "change", !.uri = u,
                                   !.error = "TypeError"]
       ELSE last' = [NoLast EXCEPT !.kind = "change", !.uri = u,
                !.sent = <<[uri |-> u,
                            diagnostics |-> validate(clearGherkinComments(text),
                                settings, stepsHandler, pagesHandler)]>>]
    /\ UNCHANGED <<settings, stepsHandler, pagesHandler, watchers, disk, taskGuides>>
    /\ UNCHANGED scopeVars
    /\ UNCHANGED requestVars

\* a listener registered by watchFiles runs
FileChange(w) ==
    /\ w \in watchers
    /\ LET r == watchListener(settings, stepsHandler, pagesHandler, disk)
       IN /\ stepsHandler' = r.stepsHandler
          /\ pagesHandler' = r.pagesHandler
          /\ last' = [NoLast EXCEPT !.kind = "fileChange", !.watch = w,
                                    !.rebuilt = r.rebuilt, !.sent = r.sent]
    /\ UNCHANGED <<settings, watchers, documents, disk, taskGuides>>
    /\ UNCHANGED scopeVars
    /\ UNCHANGED requestVars

\* a definitions file is edited outside the editor
ExternalEdit(f) ==
    /\ disk' = [disk EXCEPT ![f] = IF disk[f] = FileContents(f)[1]
                                   THEN FileContents(f)[2]
                                   ELSE FileContents(f)[1]]
    /\ last' = [NoLast EXCEPT !.kind = "edit"]
    /\ UNCHANGED <<settings, stepsHandler, pagesHandler, watchers, documents,
                   taskGuides>>
    /\ UNCHANGED scopeVars
    /\ UNCHANGED requestVars

Next ==
    \/ \E so \in SessionStepsOptions : \E po \in SessionPagesOptions :
          ChangeConfiguration(so, po)
    \/ \E u \in Uris : \E text \in SessionTexts : DidOpen(u, text)
    \/ \E u \in Uris : \E text \in SessionTexts : DidChangeContent(u, text)
    \/ \E w \in watchers : FileChange(w)
    \/ \E f \in EditableFiles : ExternalEdit(f)

Spec == Init /\ [][Next]_vars


----------------------------------------------------------------------------
(* SpecRequests: completion and definition requests, made in the states    *)
(* that configuration changes followed by a document-opened event produce *)

Disks == {[f \in Files |-> IF f \in on THEN FileContents(f)[2] ELSE FileContents(f)[1]] :
              on \in SUBSET EditableFiles}

FullSteps == StepsList(<<"s1", "s2">>)
FullPages == PagesMap(<<[key |-> "home", pattern |-> "pg1"]>>)

\* the module state before any configuration change
Fresh ==
    [settings |-> NoSettings, stepsHandler |-> NoHandler,
     pagesHandler |-> NoHandler, watchers |-> {}]

\* the module state after a configuration change in state c, on disk d
Configured(c, d, so, po) ==
    LET r == onDidChangeConfiguration(c.stepsHandler, c.pagesHandler,
                                      c.watchers, d, so, po)
    IN [settings |-> r.settings, stepsHandler |-> r.stepsHandler,
        pagesHandler |-> r.pagesHandler, watchers |-> r.watchers]

\* no configuration change, one, or a full configuration followed by another
Histories(d) ==
    {Fresh}
    \cup {Configured(Fresh, d, so, po) : so \in StepsOptions, po \in PagesOptions}
    \cup {Configured(Configured(Fresh, d, FullSteps, FullPages), d, so, po) :
              so \in StepsOptions, po \in PagesOptions}

\* the module state after documents.onDidOpen in state c, on disk d, and what
\* the handler rebuilt
Opened(c, d) ==
    IF ~c.settings.defined
    THEN [settings |-> c.settings, stepsHandler |-> c.stepsHandler,
          pagesHandler |-> c.pagesHandler, watchers |-> c.watchers,
          error |-> "TypeError", rebuilt |-> {}]
    ELSE LET p == populateHandlers(c.settings, c.stepsHandler, c.pagesHandler, d)
         IN [settings |-> c.settings, stepsHandler |-> p.stepsHandler,
             pagesHandler |-> p.pagesHandler, watchers |-> c.watchers,
             error |-> "none", rebuilt |-> p.rebuilt]

InitRequests ==
    /\ ScopeIdle
    /\ disk \in Disks
    /\ \E c \in Histories(disk) :
          LET o == Opened(c, disk)
          IN /\ settings = o.settings
             /\ stepsHandler = o.stepsHandler
             /\ pagesHandler = o.pagesHandler
             /\ watchers = o.watchers
             /\ last = [NoLast EXCEPT !.kind = "open", !.uri = 1,
                                      !.error = o.error, !.rebuilt = o.rebuilt]
    /\ \E text \in RequestTexts :
          documents = <<[uri |-> 1, text |-> text]>>
    /\ taskGuides \in Layouts
    /\ rqLine \in 0..(Len(documentsGet(1)) - 1)
    /\ rqChar \in 0..Len(LineAt(documentsGet(1), rqLine))
    /\ rqPc = "call"

\* connection.onCompletion for the document with uri 1
CompletionCall ==
    /\ rqPc = "call"
    /\ rqPc' = "done"
    /\ LET r == onCompletion(documentsGet(1), rqLine, rqChar, settings,
                             stepsHandler, pagesHandler, taskGuides)
       IN last' = [NoLast EXCEPT !.kind = "completion", !.uri = 1,
                                 !.line = rqLine, !.char = rqChar,
                                 !.word = r.word, !.lookup = r.lookup,
                                 !.error = r.error, !.result = r.items]
    /\ UNCHANGED <<settings, stepsHandler, pagesHandler, watchers, documents,
                   disk, taskGuides, rqLine, rqChar>>
    /\ UNCHANGED scopeVars

\* connection.onDefinition for the document with uri 1
DefinitionCall ==
    /\ rqPc = "call"
    /\ rqPc' = "done"
    /\ LET r == onDefinition(documentsGet(1), rqLine, rqChar, settings,
                             stepsHandler, pagesHandler)
       IN last' = [NoLast EXCEPT !.kind = "definition", !.uri = 1,
                                 !.line = rqLine, !.char = rqChar,
                                 !.error = r.error, !.provider = r.provider]
    /\ UNCHANGED <<settings, stepsHandler, pagesHandler, watchers, documents,
                   disk, taskGuides, rqLine, rqChar>>
    /\ UNCHANGED scopeVars

NextRequests == CompletionCall \/ DefinitionCall

SpecRequests == InitRequests /\ [][NextRequests]_vars


----------------------------------------------------------------------------
(* SpecScope: findCaseHandlers applied to every bounded document *)

ScopeAlphabet == {LScenario, LBackground, LDeclTaskguide, LDeclIs, LDeclBare, LStep}

RECURSIVE SeqsUpTo(_, _)
SeqsUpTo(S, n) ==
    IF n = 0
    THEN {<<>>}
    ELSE LET shorter == SeqsUpTo(S, n - 1)
         IN shorter \cup {Append(s, x) : s \in {t \in shorter : Len(t) = n - 1}, x \in S}

ScopeTexts == SeqsUpTo(ScopeAlphabet, MaxLines) \ {<<>>}

SessionIdle ==
    /\ settings = NoSettings
    /\ stepsHandler = NoHandler
    /\ pagesHandler = NoHandler
    /\ watchers = {}
    /\ documents = <<>>
    /\ disk = DiskInit
    /\ taskGuides = NoLayout
    /\ last = NoLast

InitScope ==
    /\ SessionIdle
    /\ RequestIdle
    /\ fcText \in ScopeTexts
    /\ fcLine \in 0..(Len(fcText) - 1)
    /\ fcPc = "call"
    /\ fcResult = <<>>
    /\ fcLines = <<>>

FindCaseHandlersCall ==
    /\ fcPc = "call"
    /\ fcPc' = "done"
    /\ fcResult' = findCaseHandlers(fcText, fcLine)
    /\ fcLines' = caseHandlerLines(fcText, fcLine)
    /\ UNCHANGED <<fcText, fcLine>>
    /\ UNCHANGED sessionVars
    /\ UNCHANGED requestVars

NextScope == FindCaseHandlersCall

SpecScope == InitScope /\ [][NextScope]_vars

----------------------------------------------------------------------------
(* Claims about findCaseHandlers (checked under SpecScope) *)

FcLineNumbers == 0..(Len(fcText) - 1)

IsScenarioHeader(i) == startsWithScenario(trim(LineAt(fcText, i)))
IsBackgroundHeader(i) == startsWithBackground(trim(LineAt(fcText, i)))
IsDeclaration(i) == matchCaseHandler(trim(LineAt(fcText, i))).matched

\* k is the line of the first Scenario header of the document
IsFirstScenario(k) ==
    /\ k \in FcLineNumbers
    /\ IsScenarioHeader(k)
    /\ \A j \in 0..(k - 1) : ~IsScenarioHeader(j)

\* d is a declaration inside a Background block that ends at the first Scenario k
InBackgroundBefore(d, k) ==
    /\ IsFirstScenario(k)
    /\ d \in 0..(k - 1)
    /\ IsDeclaration(d)
    /\ \E b \in 0..(d - 1) : IsBackgroundHeader(b)

\* the nearest header at or above line c is the Scenario header at line s
InsideScenario(c, s) ==
    /\ s \in 0..c
    /\ IsScenarioHeader(s)
    /\ \A j \in (s + 1)..c : ~IsScenarioHeader(j) /\ ~IsBackgroundHeader(j)

\* C3: in a document without any Scenario or Background header,
\* findCaseHandlers returns no case handler, whatever the cursor line.
C3_NoHeadersNoHandlers ==
    (/\ fcPc = "done"
     /\ \A i \in FcLineNumbers : ~IsScenarioHeader(i) /\ ~IsBackgroundHeader(i))
    => fcResult = <<>>

\* C4: a declaration inside the Background that precedes the first Scenario k
\* is returned for every cursor line in [0, k-1] and for every cursor line
\* inside the Scenario that starts at k.
C4_BackgroundVisible ==
    fcPc = "done" =>
        \A k \in FcLineNumbers : \A d \in FcLineNumbers :
            (/\ InBackgroundBefore(d, k)
             /\ (fcLine \in 0..(k - 1) \/ InsideScenario(fcLine, k)))
            => d \in Range(fcLines)

\* the half of C4 about cursor lines inside the first Scenario
C4_VisibleInFirstScenario ==
    fcPc = "done" =>
        \A k \in FcLineNumbers : \A d \in FcLineNumbers :
            (InBackgroundBefore(d, k) /\ InsideScenario(fcLine, k))
            => d \in Range(fcLines)

\* the cursor lies inside a Scenario that starts after the first Scenario k,
\* and d is a declaration of the Background before k
LaterScenarioCase(d, k) ==
    /\ InBackgroundBefore(d, k)
    /\ \E s \in (k + 1)..fcLine : InsideScenario(fcLine, s)

\* C5 as stated: a declaration of the Background is not returned for a cursor
\* line inside a later Scenario.
C5_HiddenInLaterScenario ==
    fcPc = "done" =>
        \A k \in FcLineNumbers : \A d \in FcLineNumbers :
            LaterScenarioCase(d, k) => d \notin Range(fcLines)

----------------------------------------------------------------------------
(* Claims about validate (checked under Spec) *)

\* the handlers that ran validate, and so sent document diagnostics
Validated == last.kind \in {"change", "fileChange"}

DiagnosticsOf(m, i, source) ==
    {n \in 1..Len(m.diagnostics) :
        m.diagnostics[n].line = i /\ m.diagnostics[n].source = source}

\* the step validator reports line i of the validated text
StepReports(lines, i) ==
    /\ handleSteps(settings)
    /\ stepsHandler.defined
    /\ stepsValidate(stepsHandler.index, LineAt(lines, i), i) # <<>>

\* the page validator would report line i of the validated text
PageWouldReport(lines, i) ==
    /\ handlePages(settings)
    /\ pagesHandler.defined
    /\ pagesValidate(pagesHandler.index, LineAt(lines, i), i) # <<>>

\* C1: for every validated document and every line, the result holds the step
\* diagnostic of the line or its page diagnostics, never both; a line the
\* step validator reports carries no page diagnostic.
C1_SingleOwnerPerLine ==
    Validated =>
        \A n \in 1..Len(last.sent) :
            LET m == last.sent[n]
                lines == clearGherkinComments(documentsGet(m.uri))
            IN \A i \in 0..(Len(lines) - 1) :
                  /\ ~(DiagnosticsOf(m, i, "step") # {} /\ DiagnosticsOf(m, i, "page") # {})
                  /\ StepReports(lines, i) =>
                        /\ Cardinality(DiagnosticsOf(m, i, "step")) = 1
                        /\ DiagnosticsOf(m, i, "page") = {}

C1_Witness ==
    /\ Validated
    /\ \E n \in 1..Len(last.sent) :
          LET m == last.sent[n]
              lines == clearGherkinComments(documentsGet(m.uri))
          IN \E i \in 0..(Len(lines) - 1) :
                /\ StepReports(lines, i)
                /\ PageWouldReport(lines, i)
                /\ DiagnosticsOf(m, i, "step") # {}

----------------------------------------------------------------------------
(* Claims about completion (checked under SpecRequests) *)

\* the source of a completion item: 1 case handler, 2 field, 3 page, 4 step
SourceRank(item) ==
    IF item.data = "step" THEN 4
    ELSE IF item.data = "page" THEN 3
    ELSE IF item.sortText = "AA_" THEN 2
    ELSE 1

RECURSIVE OfRank(_, _)
OfRank(items, r) ==
    IF items = <<>>
    THEN <<>>
    ELSE (IF SourceRank(Head(items)) = r THEN <<Head(items)>> ELSE <<>>)
         \o OfRank(Tail(items), r)

Completed == rqPc = "done" /\ last.kind = "completion" /\ last.error = "none"

RequestLine == LineAt(documentsGet(1), rqLine)

\* C2: the completion result lists case-handler entries, then field entries,
\* then page entries, then step entries; a source that does not apply
\* contributes nothing, one that applies contributes all its entries.
C2_SourcePrecedence ==
    Completed =>
        /\ \A i \in 1..Len(last.result) : \A j \in 1..Len(last.result) :
              i < j => SourceRank(last.result[i]) <= SourceRank(last.result[j])
        /\ Len(OfRank(last.result, 1)) =
              IF last.word \in {"case", "field"}
              THEN Len(findCaseHandlers(documentsGet(1), rqLine))
              ELSE 0
        /\ ~last.lookup => OfRank(last.result, 2) = <<>>
        /\ OfRank(last.result, 3) =
              IF pagesPosition(RequestLine, rqChar, settings, pagesHandler)
              THEN pagesGetCompletion(pagesHandler.index)
              ELSE <<>>
        /\ OfRank(last.result, 4) =
              IF handleSteps(settings) /\ stepsHandler.defined
              THEN stepsGetCompletion(stepsHandler.index, RequestLine)
              ELSE <<>>

C2_Witness ==
    /\ Completed
    /\ OfRank(last.result, 1) # <<>>
    /\ OfRank(last.result, 3) # <<>>
    /\ OfRank(last.result, 4) # <<>>

\* C6: a completion request whose prefix token names an in-scope case handler
\* is never aborted by the field lookup (stated for the configured session,
\* where nothing but the lookup can fail).
C6_FieldLookupNeverAborts ==
    (rqPc = "done" /\ last.kind = "completion" /\ last.lookup /\ settings.defined)
    => last.error = "none"

----------------------------------------------------------------------------
(* Claims about the session (checked under Spec) *)

\* C7: a document-opened, content-changed, completion or definition event
\* never raises an error, in any state of the session.
C7_NoErrorRaised ==
    last.kind \in {"open", "change", "completion", "definition"}
    => last.error = "none"

RECURSIVE GlobbedFor(_, _)
GlobbedFor(calls, owner) ==
    IF calls = <<>>
    THEN <<>>
    ELSE (IF Head(calls).owner = owner THEN <<Head(calls).pattern>> ELSE <<>>)
         \o GlobbedFor(Tail(calls), owner)

\* C8: after a configuration change whose steps option is one string, the
\* settings hold the one-element list of that string, the step patterns were
\* expanded once, for that string, and one step index was built.
C8_StringNormalized ==
    (last.kind = "config" /\ last.option.kind = "string") =>
        /\ settings.steps = <<last.option.str>>
        /\ GlobbedFor(last.globbed, "steps") = <<last.option.str>>
        /\ Cardinality({n \in 1..Len(last.built) : last.built[n] = "steps"}) = 1
        /\ stepsHandler = [defined |-> TRUE,
                           index |-> buildStepsIndex(<<last.option.str>>, disk)]
        /\ \A f \in Range(Glob(last.option.str)) :
              [file |-> f, owner |-> "steps"] \in watchers

C8_Witness ==
    /\ last.kind = "config"
    /\ last.option = StepsString("s1")
    /\ [file |-> "a.steps", owner |-> "steps"] \in watchers
    /\ stepsHandler.defined

\* the indexes the current settings enable and that have been constructed
Enabled ==
    (IF settings.defined /\ handleSteps(settings) /\ stepsHandler.defined
     THEN {"steps"} ELSE {})
    \cup (IF settings.defined /\ handlePages(settings) /\ pagesHandler.defined
          THEN {"pages"} ELSE {})

\* the rebuilt indexes hold what is on disk
RebuiltFresh ==
    /\ "steps" \in last.rebuilt =>
          stepsHandler.index = buildStepsIndex(settings.steps, disk)
    /\ "pages" \in last.rebuilt =>
          pagesHandler.index = buildPagesIndex(settings.pages, disk)

\* one message per open document, in order, validated against the indexes
\* as they are after the event
BroadcastAgainstCurrent ==
    LET open == openUris
    IN /\ Len(last.sent) = Len(open)
       /\ \A n \in 1..Len(open) :
             /\ last.sent[n].uri = open[n]
             /\ last.sent[n].diagnostics =
                   validate(clearGherkinComments(documentsGet(open[n])),
                            settings, stepsHandler, pagesHandler)

\* C9 as stated: on every file-change event the index that owns the watch is
\* rebuilt, then every open document is validated against the rebuilt index.
C9_OwnerRebuilt ==
    last.kind = "fileChange" =>
        /\ last.watch.owner \in last.rebuilt
        /\ RebuiltFresh
        /\ BroadcastAgainstCurrent

\* C9 (amended): on every file-change event every index that the current
\* settings enable (and only those) is rebuilt from disk, whichever index
\* owns the watch; then one message per open document is sent, validated
\* against the indexes as rebuilt.
C9_EnabledRebuiltThenBroadcast ==
    last.kind = "fileChange" =>
        /\ last.rebuilt = Enabled
        /\ RebuiltFresh
        /\ BroadcastAgainstCurrent

C9_Witness ==
    /\ last.kind = "fileChange"
    /\ last.rebuilt = {"steps", "pages"}
    /\ Len(last.sent) = MaxDocs
    /\ \E n \in 1..Len(last.sent) :
          \E k \in 1..Len(last.sent[n].diagnostics) :
              last.sent[n].diagnostics[k].source = "page"
    /\ \E n \in 1..Len(last.sent) :
          \E k \in 1..Len(last.sent[n].diagnostics) :
              last.sent[n].diagnostics[k].source = "step"

\* C10 as stated: a document-opened event rebuilds both indexes (stated for
\* the configured session, where the handler completes).
C10_BothRebuilt ==
    (last.kind = "open" /\ settings.defined) => last.rebuilt = {"steps", "pages"}

\* C10 (amended): a document-opened event rebuilds exactly the indexes that
\* the current settings enable and that have been constructed.
C10_EnabledRebuiltOnOpen ==
    last.kind = "open" =>
        /\ last.rebuilt = Enabled
        /\ RebuiltFresh

C10_Witness ==
    /\ last.kind = "open"
    /\ settings.defined
    /\ handlePages(settings)
    /\ last.rebuilt = {"pages"}

----------------------------------------------------------------------------
(* Claims about the case-handler and field entries (checked under SpecRequests) *)

\* the character immediately before the cursor is whitespace
SpaceBeforeCursor == rqChar > 0 /\ RequestLine[rqChar] = " "

\* C11: when the prefix token is a trigger keyword, the insert text of every
\* case-handler entry is the bare name if the character before the cursor is
\* whitespace, and the typed keyword followed by the name otherwise (stated
\* for cursor lines that lie in a Scenario).
C11_InsertTextByCursor ==
    (/\ Completed
     /\ last.word \in {"case", "field"}
     /\ scanBack(documentsGet(1), rqLine, -1).scenarioStartLine # -1) =>
        \A n \in 1..Len(OfRank(last.result, 1)) :
            LET item == OfRank(last.result, 1)[n]
            IN item.insertText = IF SpaceBeforeCursor
                                 THEN <<item.label>>
                                 ELSE <<last.word, " ", item.label>>

\* the case handlers the prefix token of the request names
NamedHandlers ==
    handlersBeforeCursor(findCaseHandlers(documentsGet(1), rqLine), last.word)

\* C12: when the prefix token names an in-scope case handler that was declared
\* without a target, no field lookup is made and no field entry is appended
\* (stated for requests that return).
C12_NoLookupWithoutTarget ==
    (/\ Completed
     /\ NamedHandlers # <<>>
     /\ NamedHandlers[1].detail[3] = Undefined) =>
        /\ ~last.lookup
        /\ OfRank(last.result, 2) = <<>>

\* the task-guide root the lookup lists
ListedRoot == IF taskGuides.primary.exists THEN taskGuides.primary ELSE taskGuides.fallback

SameIgnoringCase(cs, ds) == toLowerCase(cs) = toLowerCase(ds)

\* C13: the fields of every readable description file whose directory and
\* file name equal the bound target up to letter case are returned, with the
\* field names as written in the file.
C13_CaseInsensitiveLookup ==
    (Completed /\ last.lookup) =>
        LET target == Chars(NamedHandlers[1].detail[3])
        IN \A d \in 1..Len(ListedRoot.entries) :
              LET dir == ListedRoot.entries[d]
              IN (dir.isDir /\ SameIgnoringCase(dir.name, target)) =>
                    \A f \in 1..Len(dir.files) :
                        LET file == dir.files[f]
                        IN (/\ SameIgnoringCase(file.stem, target)
                            /\ file.suffix = ".fields.xml"
                            /\ file.readable) =>
                               Range(parseXmlForCompletionItems(file.content))
                                   \subseteq Range(OfRank(last.result, 2))

----------------------------------------------------------------------------
(* Claim about the steps option (checked under Spec) *)

\* C14: after a configuration change without a steps option, step handling
\* is not configured: no step pattern is expanded for watching, no step index
\* is built, and the settings do not enable the step index for later requests.
C14_AbsentStepsNotConfigured ==
    (last.kind = "config" /\ last.option.kind = "absent") =>
        /\ GlobbedFor(last.globbed, "steps") = <<>>
        /\ "steps" \notin Range(last.built)
        /\ ~handleSteps(settings)

----------------------------------------------------------------------------
(* Claim about the scenario span (checked under SpecScope) *)

\* line d lies inside a Scenario other than the one that starts at line s
InOtherScenario(d, s) ==
    \E t \in FcLineNumbers : t # s /\ InsideScenario(d, t)

\* the declarations of the Scenario at s up to the cursor line
DeclarationsUpToCursor(s) == {d \in s..fcLine : IsDeclaration(d)}

\* C15: for a cursor line whose nearest header is the Scenario header S,
\* findCaseHandlers returns no declaration of another Scenario and none after
\* the cursor line; it returns every declaration of S up to the cursor, in
\* document order, one entry per declaration even when names repeat.
C15_ScenarioSpan ==
    fcPc = "done" =>
        \A s \in FcLineNumbers :
            InsideScenario(fcLine, s) =>
                /\ \A n \in 1..Len(fcLines) :
                      /\ fcLines[n] <= fcLine
                      /\ ~InOtherScenario(fcLines[n], s)
                /\ \A n \in 1..(Len(fcLines) - 1) : fcLines[n] < fcLines[n + 1]
                /\ DeclarationsUpToCursor(s) \subseteq Range(fcLines)
                /\ Len(fcResult) = Len(fcLines)
                /\ \A n \in 1..Len(fcLines) :
                      fcResult[n].label =
                          matchCaseHandler(trim(LineAt(fcText, fcLines[n]))).g1

C15_Witness ==
    /\ fcPc = "done"
    /\ \E s \in FcLineNumbers :
          /\ InsideScenario(fcLine, s)
          /\ \E d \in FcLineNumbers :
                IsDeclaration(d) /\ InOtherScenario(d, s) /\ d \notin Range(fcLines)
          /\ \E m \in 1..Len(fcResult) : \E n \in 1..Len(fcResult) :
                m < n /\ fcResult[m].label = fcResult[n].label

====
